---- MODULE Spec2Model ----
(***************************************************************************)
(* Model of pyctor's actor execution engine (src/pyctor/behavior.py):      *)
(* one BehaviorProcessorImpl with its zero-capacity mailbox, the           *)
(* behavior_task loop, the supervise wrapper, and the senders that reach   *)
(* the actor through handle (blocking send) and handle_nowait.             *)
(***************************************************************************)
EXTENDS Integers, Sequences, FiniteSets, TLC

\* ---------------------------------------------------------------- bounds
\* total number of sends (send + send_nowait) issued by all senders
MaxSends == 3

\* upper bound on scope entries; the loop enters at most once per message
\* plus the initial entry
MaxSetups == MaxSends + 1

\* ---------------------------------------------------------------- values
\* the sender that uses the blocking send, awaiting each send before the next
BlockingSenders == {"A"}

\* the sender that uses send_nowait
NowaitSender == "N"

\* what the user's handler function may do with a message: return one of the
\* Signals, return a replacement Behavior, or raise an error
Kinds == {"Same", "Ignored", "Stop", "Restart", "Behavior", "Raise"}

\* SuperviseStrategy members (Restart, Stop, Ignore); "Fails" is a strategy
\* callback that itself raises; "none" is an actor that is not supervised
Strategies == {"none", "Restart", "Stop", "Ignore", "Fails"}

\* the behavior factory the processor was constructed with
Orig == [kind |-> "orig", n |-> 0]

\* no handler bound (outside of `async with behavior() as b`)
NoHandler == [kind |-> "none", n |-> 0]

VARIABLES
    sup,        \* the supervise strategy wrapped around the handler
    typeCheck,  \* the receive behavior was built with a type_check
    scopeStop,  \* progress of stop() of the scope that spawned the actor
    pc,         \* position of behavior_task
    run,        \* local `run` of behavior_task
    behavior,   \* local `behavior` of behavior_task
    b,          \* local `b`: the handler messages are dispatched to
    scope,      \* "in" while inside `async with behavior() as b`
    setups,     \* number of times behavior() was entered
    teardowns,  \* number of normal exits of the behavior scope
    excExits,   \* number of exits of the behavior scope by a raised error
    closed,     \* the send channel _send has been closed
    sendTasks,  \* tasks blocked in _send.send, in arrival order
    spawned,    \* handle tasks started by handle_nowait, not yet run
    inflight,   \* messages received whose b.handle has not returned yet
    handled,    \* log of dispatches: message and the handler it went to
    ignoredLog, \* messages reported by print("Message ignored: ...")
    dropped,    \* messages whose send logged the "already terminated" warning
    raised,     \* messages whose send raised an error to the sender
    lastResult, \* local `new_behavior` of the last dispatch
    sent,       \* per sender: number of sends issued
    extStop,    \* stop() was called from outside the loop
    eoc         \* number of EndOfChannel errors caught by the loop

vars == <<sup, typeCheck, scopeStop, pc, run, behavior, b, scope, setups, teardowns, excExits,
          closed, sendTasks, spawned, inflight, handled, ignoredLog, dropped,
          raised, lastResult, sent, extStop, eoc>>

Senders == BlockingSenders \cup {NowaitSender}

TotalSent == sent["A"] + sent[NowaitSender]

Msg(s) == [from |-> s, seq |-> sent[s] + 1]

RECURSIVE SeqToSet(_)
SeqToSet(q) == IF q = <<>> THEN {} ELSE {Head(q)} \cup SeqToSet(Tail(q))

\* a blocking sender is suspended in _send.send
Blocked(s) == \E i \in 1..Len(sendTasks) : sendTasks[i].from = s

\* ------------------------------------------------------ pure functions
\* variant: the message type is not asserted
BehaviorHandleNoCheck(msg, k) == [called |-> TRUE, result |-> k]

\* BehaviorHandlerImpl.handle: with a type_check, the assert on the message
\* type fails before the user function is called; otherwise the user
\* function is called and what it returns or raises (k) is the result
BehaviorHandle(msg, k) ==
    IF typeCheck /\ ~msg.typed
    THEN [called |-> FALSE, result |-> "Raise"]
    ELSE [called |-> TRUE, result |-> k]

\* the match statement of SuperviseBehaviorHandlerImpl.handle; the last
\* case is the sequence pattern `_, SuperviseStrategy.Ignore`, which an
\* enum member never matches, so the function falls off its end (None)
StrategySignal(now_what) ==
    CASE now_what = "Restart" -> "Restart"
      [] now_what = "Stop"    -> "Stop"
      [] OTHER                -> "None"

\* variant: a failure of the strategy callback is swallowed
SuperviseHandleSwallow(strategy, msg, k) ==
    IF BehaviorHandle(msg, k).result # "Raise"
    THEN BehaviorHandle(msg, k).result
    ELSE IF strategy = "Fails" THEN "Same"
    ELSE IF strategy = "Restart" THEN "Restart"
    ELSE IF strategy = "Stop" THEN "Stop"
    ELSE "None"

\* variant: no try/except around the wrapped handler
SuperviseHandleNoCatch(strategy, msg, k) == BehaviorHandle(msg, k).result

\* SuperviseBehaviorHandlerImpl.handle
SuperviseHandle(strategy, msg, k) ==
    IF BehaviorHandle(msg, k).result # "Raise"
    THEN BehaviorHandle(msg, k).result
    ELSE IF strategy = "Fails" THEN "Raise"
    ELSE StrategySignal(strategy)

\* b.handle(msg) as behavior_task calls it
Dispatch(msg, k) ==
    IF sup = "none" THEN BehaviorHandle(msg, k).result
    ELSE SuperviseHandle(sup, msg, k)


\* ------------------------------------------------------------- Init
Init ==
    /\ sup \in Strategies
    /\ typeCheck \in BOOLEAN
    /\ scopeStop = "idle"
    /\ pc = "enter"
    /\ run = TRUE
    /\ behavior = Orig
    /\ b = NoHandler
    /\ scope = "out"
    /\ setups = 0
    /\ teardowns = 0
    /\ excExits = 0
    /\ closed = FALSE
    /\ sendTasks = <<>>
    /\ spawned = {}
    /\ inflight = {}
    /\ handled = <<>>
    /\ ignoredLog = <<>>
    /\ dropped = {}
    /\ raised = {}
    /\ lastResult = "-"
    /\ sent = [s \in Senders |-> 0]
    /\ extStop = FALSE
    /\ eoc = 0

\* ----------------------------------------------------------- the mailbox
\* variant: the error is swallowed for send_nowait only, a blocking sender
\* gets it
HandleClosedBlockingRaises(ms) ==
    [warned |-> {m \in ms : m.from = NowaitSender},
     raised |-> {m \in ms : m.from # NowaitSender}]

\* variant: handle without the except clause, the error reaches the sender
HandleClosedReraise(ms) == [warned |-> {}, raised |-> ms]

\* the except clause of BehaviorProcessorImpl.handle: ClosedResourceError
\* is swallowed and a warning is logged, nothing reaches the sender
HandleClosed(ms) == [warned |-> ms, raised |-> {}]

\* variant: the channel is closed but the blocked senders are not woken
CloseSendNoWake ==
    /\ closed' = TRUE
    /\ UNCHANGED <<sendTasks, dropped, raised>>

\* closing _send (BehaviorProcessorImpl.stop): every task blocked in
\* _send.send is woken with ClosedResourceError, which handle catches
CloseSend ==
    /\ closed' = TRUE
    /\ sendTasks' = <<>>
    /\ dropped' = dropped \cup HandleClosed(SeqToSet(sendTasks)).warned
    /\ raised' = raised \cup HandleClosed(SeqToSet(sendTasks)).raised

\* variant: a send on the closed channel waits like any other send
HandleIgnoresClosed(msg) ==
    /\ sendTasks' = Append(sendTasks, msg)
    /\ UNCHANGED <<dropped, raised>>

\* BehaviorProcessorImpl.handle(msg): _send.send(msg) on a zero-capacity
\* channel suspends the task until the loop receives the message
Handle(msg) ==
    IF closed
    THEN /\ dropped' = dropped \cup HandleClosed({msg}).warned
         /\ raised' = raised \cup HandleClosed({msg}).raised
         /\ UNCHANGED sendTasks
    ELSE /\ sendTasks' = Append(sendTasks, msg)
         /\ UNCHANGED <<dropped, raised>>

\* variant: the message is handed over but its sender stays queued
ChanReceivePeek(q) == [msg |-> Head(q), rest |-> q]

\* _receive.receive() hands over the message of the longest-waiting sender
ChanReceive(q) == [msg |-> Head(q), rest |-> Tail(q)]

\* ------------------------------------------------------------ senders
\* ref.send(msg): a blocking sender awaits handle(msg)
Send(s) ==
    /\ s \in BlockingSenders
    /\ ~Blocked(s)
    /\ TotalSent < MaxSends
    /\ sent' = [sent EXCEPT ![s] = @ + 1]
    /\ Handle(Msg(s))
    /\ UNCHANGED <<sup, typeCheck, scopeStop, pc, run, behavior, b, scope, setups, teardowns,
                   excExits, closed, spawned, inflight, handled, ignoredLog,
                   lastResult, extStop, eoc>>

\* handle_nowait(msg): nursery.start_soon(self.handle, msg)
SendNowait ==
    /\ TotalSent < MaxSends
    /\ sent' = [sent EXCEPT ![NowaitSender] = @ + 1]
    /\ spawned' = spawned \cup {Msg(NowaitSender)}
    /\ UNCHANGED <<sup, typeCheck, scopeStop, pc, run, behavior, b, scope, setups, teardowns,
                   excExits, closed, sendTasks, inflight, handled, ignoredLog,
                   dropped, raised, lastResult, extStop, eoc>>

\* a task started by handle_nowait gets scheduled and runs handle(msg)
NowaitRun(m) ==
    /\ m \in spawned
    /\ spawned' = spawned \ {m}
    /\ Handle(m)
    /\ UNCHANGED <<sup, typeCheck, scopeStop, pc, run, behavior, b, scope, setups, teardowns,
                   excExits, closed, inflight, handled, ignoredLog,
                   lastResult, sent, extStop, eoc>>

\* stop() awaited by a caller other than the loop itself
ExternalStop ==
    /\ ~closed
    /\ extStop' = TRUE
    /\ CloseSend
    /\ UNCHANGED <<sup, typeCheck, scopeStop, pc, run, behavior, b, scope, setups, teardowns,
                   excExits, spawned, inflight, handled, ignoredLog,
                   lastResult, sent, eoc>>

\* ------------------------------------------------------ behavior_task
\* `async with behavior() as b`: the factory is called and the scope entered;
\* a BehaviorHandler object assigned to `behavior` is not callable
Enter ==
    /\ pc = "enter"
    /\ run
    /\ setups < MaxSetups
    /\ IF behavior = Orig
       THEN /\ setups' = setups + 1
            /\ scope' = "in"
            /\ b' = [kind |-> "setup", n |-> setups + 1]
            /\ pc' = "receive"
       ELSE /\ pc' = "crashed"
            /\ UNCHANGED <<setups, scope, b>>
    /\ UNCHANGED <<sup, typeCheck, scopeStop, run, behavior, teardowns, excExits, closed, sendTasks,
                   spawned, inflight, handled, ignoredLog, dropped, raised,
                   lastResult, sent, extStop, eoc>>

\* variant: the loop receives while a handler call is still running
CanReceiveEarly == pc \in {"receive", "handling"}

\* the loop awaits receive() only after b.handle of the previous message
\* has returned
CanReceive == pc = "receive"

\* msg = await self._receive.receive(); new_behavior = await b.handle(msg)
Receive ==
    /\ CanReceive
    /\ sendTasks # <<>>
    /\ sendTasks' = ChanReceive(sendTasks).rest
    /\ inflight' = inflight \cup {ChanReceive(sendTasks).msg}
    /\ handled' = Append(handled, [msg |-> ChanReceive(sendTasks).msg,
                                   handler |-> b, typed |-> TRUE,
                                   did |-> "-", result |-> "-"])
    /\ pc' = "handling"
    /\ UNCHANGED <<sup, typeCheck, scopeStop, run, behavior, b, scope, setups, teardowns, excExits,
                   closed, spawned, ignoredLog, dropped, raised, lastResult,
                   sent, extStop, eoc>>

\* variant: the except clause leaves `run` set
RunAfterEndOfChannelKept == TRUE

\* value of `run` after `except trio.EndOfChannel`
RunAfterEndOfChannel == FALSE

\* receive() on a closed, empty channel raises EndOfChannel: run is cleared,
\* the scope is exited and the outer loop tests `run`
EndOfChannel ==
    /\ CanReceive
    /\ sendTasks = <<>>
    /\ closed
    /\ run' = RunAfterEndOfChannel
    /\ scope' = "out"
    /\ b' = NoHandler
    /\ teardowns' = teardowns + 1
    /\ pc' = IF RunAfterEndOfChannel THEN "enter" ELSE "done"
    /\ eoc' = eoc + 1
    /\ UNCHANGED <<sup, typeCheck, scopeStop, behavior, setups, excExits, closed, sendTasks,
                   spawned, inflight, handled, ignoredLog, dropped, raised,
                   lastResult, sent, extStop>>

\* variant: an ignored message is not reported
IgnoredReportSilent(log, m) == log

\* case Behaviors.Ignored: print(f"Message ignored: {msg}")
IgnoredReport(log, m) == Append(log, m)

\* variant: the Stop case leaves the behavior scope before closing
ScopeAfterStopExited(sc) == "out"

\* case Behaviors.Stop: stop() is awaited inside the `async with` block
ScopeAfterStop(sc) == sc

\* the handler the next message is dispatched to, after the match
ActiveAfter(r, cur, new) == cur

\* the factory the outer loop calls next, after the match
FactoryAfter(r, cur, new) == IF r = "Behavior" THEN new ELSE cur

\* position of message m in the dispatch log
LogIndex(m) == CHOOSE i \in DOMAIN handled : handled[i].msg = m

\* the Behavior value the handler returns as replacement while handling m
NewBehavior(m) == [kind |-> "repl", n |-> LogIndex(m)]

\* the message m as the handler sees it: of the type of the type_check or not
Typed(m, t) == [from |-> m.from, seq |-> m.seq, typed |-> t]

\* b.handle(m) returns (or raises), the message being of the expected type
\* or not (t) and the user function doing k, and the match statement
\* interprets new_behavior; without a type_check the type is never looked at
HandlerReturn(m, k, t) ==
    /\ pc = "handling"
    /\ m \in inflight
    /\ t \/ typeCheck
    /\ inflight' = inflight \ {m}
    /\ lastResult' = Dispatch(Typed(m, t), k)
    /\ handled' = [handled EXCEPT
                       ![LogIndex(m)].typed = t,
                       ![LogIndex(m)].did =
                           IF BehaviorHandle(Typed(m, t), k).called
                           THEN k ELSE "-",
                       ![LogIndex(m)].result = Dispatch(Typed(m, t), k)]
    /\ behavior' = FactoryAfter(Dispatch(Typed(m, t), k), behavior,
                                NewBehavior(m))
    /\ CASE Dispatch(Typed(m, t), k) = "Ignored" ->
              /\ ignoredLog' = IgnoredReport(ignoredLog, m)
              /\ pc' = "receive"
              /\ b' = b
              /\ UNCHANGED <<scope, teardowns, excExits, closed, sendTasks,
                             dropped, raised>>
         [] Dispatch(Typed(m, t), k) = "Stop" ->
              /\ CloseSend
              /\ pc' = "receive"
              /\ b' = b
              /\ scope' = ScopeAfterStop(scope)
              /\ UNCHANGED <<teardowns, excExits, ignoredLog>>
         [] Dispatch(Typed(m, t), k) = "Restart" ->
              /\ scope' = "out"
              /\ b' = NoHandler
              /\ teardowns' = teardowns + 1
              /\ pc' = "enter"
              /\ UNCHANGED <<excExits, closed, sendTasks, dropped, raised,
                             ignoredLog>>
         [] Dispatch(Typed(m, t), k) = "Raise" ->
              /\ scope' = "out"
              /\ b' = NoHandler
              /\ excExits' = excExits + 1
              /\ pc' = "crashed"
              /\ UNCHANGED <<teardowns, closed, sendTasks, dropped, raised,
                             ignoredLog>>
         [] OTHER ->
              /\ pc' = "receive"
              /\ b' = ActiveAfter(Dispatch(Typed(m, t), k), b, NewBehavior(m))
              /\ UNCHANGED <<scope, teardowns, excExits, closed, sendTasks,
                             dropped, raised, ignoredLog>>
    /\ UNCHANGED <<sup, typeCheck, scopeStop, run, setups, spawned, sent, extStop, eoc>>

Next ==
    \/ \E s \in BlockingSenders : Send(s)
    \/ SendNowait
    \/ \E m \in spawned : NowaitRun(m)
    \/ ExternalStop
    \/ Enter
    \/ Receive
    \/ EndOfChannel
    \/ \E m \in inflight, k \in Kinds, t \in BOOLEAN : HandlerReturn(m, k, t)

Spec == Init /\ [][Next]_vars

\* variant: a Cancelled error passes without the scope being exited
CancelExitsNever(sc) == FALSE

\* `async with`: a Cancelled error raised inside an entered scope exits it
CancelExits(sc) == sc = "in"

\* the actor task is cancelled at a checkpoint: in the setup, blocked in
\* receive() or inside b.handle; Cancelled is not an Exception, so neither
\* `except trio.EndOfChannel` nor the supervise wrapper catches it
Cancel ==
    /\ pc \in {"enter", "receive", "handling"}
    /\ pc' = "cancelled"
    /\ inflight' = {}
    /\ handled' = [i \in DOMAIN handled |->
                      IF handled[i].result = "-"
                      THEN [handled[i] EXCEPT !.result = "Cancelled"]
                      ELSE handled[i]]
    /\ IF CancelExits(scope)
       THEN /\ scope' = "out"
            /\ b' = NoHandler
            /\ excExits' = excExits + 1
       ELSE UNCHANGED <<scope, b, excExits>>
    /\ UNCHANGED <<sup, typeCheck, scopeStop, run, behavior, setups,
                   teardowns, closed, sendTasks, spawned, ignoredLog, dropped,
                   raised, lastResult, sent, extStop, eoc>>

\* stop() of the scope that spawned the actor: it stops the child, that is
\* closes its mailbox, and then waits for the child's task
ScopeStop ==
    /\ scopeStop = "idle"
    /\ scopeStop' = "stopping"
    /\ IF closed
       THEN UNCHANGED <<closed, sendTasks, dropped, raised, extStop>>
       ELSE CloseSend /\ extStop' = TRUE
    /\ UNCHANGED <<sup, typeCheck, pc, run, behavior, b, scope, setups,
                   teardowns, excExits, spawned, inflight, handled,
                   ignoredLog, lastResult, sent, eoc>>

\* stop() of the scope returns once the child's task has finished
ScopeStopReturn ==
    /\ scopeStop = "stopping"
    /\ pc \in {"done", "crashed", "cancelled"}
    /\ scopeStop' = "returned"
    /\ UNCHANGED <<sup, typeCheck, pc, run, behavior, b, scope, setups,
                   teardowns, excExits, closed, sendTasks, spawned, inflight,
                   handled, ignoredLog, dropped, raised, lastResult, sent,
                   extStop, eoc>>

NextScope ==
    \/ Next
    \/ Cancel
    \/ ScopeStop
    \/ ScopeStopReturn

\* the actor together with the scope that spawned it
SpecScope == Init /\ [][NextScope]_vars

\* the scheduler runs every task that can run: the loop task takes its next
\* step, a handler call returns, a task started by handle_nowait gets its
\* turn; nothing obliges a sender to send or anybody to call stop()
FairSpec ==
    /\ Spec
    /\ WF_vars(Enter)
    /\ WF_vars(Receive)
    /\ WF_vars(EndOfChannel)
    /\ WF_vars(\E m \in inflight, k \in Kinds, t \in BOOLEAN :
                   HandlerReturn(m, k, t))
    /\ WF_vars(\E m \in spawned : NowaitRun(m))

\* ------------------------------------------------------------ claims
\* dispatches of the messages of sender s, in dispatch order
DispatchedFrom(s) == SelectSeq(handled, LAMBDA e : e.msg.from = s)

\* messages of sender s whose send ended with the "already terminated" warning
DroppedFrom(s) == {m \in dropped : m.from = s}

\* C1: the messages a single sender delivers with the blocking send are
\* dispatched to the handler in exactly the send order, and while the mailbox
\* is open every send that has completed has been dispatched.
C1_SendOrder ==
    \A s \in BlockingSenders :
        /\ \A i \in 1..Len(DispatchedFrom(s)) :
               DispatchedFrom(s)[i].msg.seq = i
        /\ ~closed =>
               Len(DispatchedFrom(s)) =
                   sent[s] - (IF Blocked(s) THEN 1 ELSE 0)

\* three messages of the blocking sender were dispatched, in order
C1_Witness ==
    /\ Len(DispatchedFrom("A")) = 3
    /\ DispatchedFrom("A")[3].msg.seq = 3
    /\ ~closed

\* C2: an actor has at most one dispatch in flight; every dispatch but the
\* last one in the log has returned before the next message was received.
C2_OneDispatch ==
    /\ Cardinality(inflight) <= 1
    /\ \A i \in DOMAIN handled :
           handled[i].result = "-" =>
               /\ i = Len(handled)
               /\ inflight = {handled[i].msg}
               /\ pc = "handling"

\* a dispatch is in flight while two other senders wait in the mailbox
C2_Witness ==
    /\ pc = "handling"
    /\ Cardinality(inflight) = 1
    /\ Len(sendTasks) = 2
    /\ Len(handled) = 1

\* a handler has returned Stop
StopReturned == \E i \in DOMAIN handled : handled[i].result = "Stop"

C4_TeardownOnce ==
    /\ [](/\ teardowns + excExits
                = setups - (IF scope = "in" THEN 1 ELSE 0)
          /\ eoc > 0 =>
                /\ eoc = 1
                /\ pc = "done"
                /\ scope = "out"
                /\ setups >= 1
                /\ teardowns = setups
                /\ excExits = 0
          /\ (StopReturned /\ pc # "receive") => pc = "done")
    /\ [][eoc > 0 => (setups' = setups /\ teardowns' = teardowns)]_vars

\* the loop ended after a Stop, with the scope entered twice and exited twice
C4_Witness ==
    /\ pc = "done"
    /\ lastResult = "Stop"
    /\ setups = 2
    /\ teardowns = 2

\* C5: when a handler returns Restart the scope is torn down, the setup
\* initializer runs again and yields a fresh handler for the following
\* messages, and the actor stays alive with its mailbox open.
C5_RestartReentersSetup ==
    lastResult = "Restart" =>
        /\ excExits = 0
        /\ closed => extStop
        /\ \/ /\ pc = "enter"
              /\ run
              /\ scope = "out"
              /\ teardowns = setups
           \/ /\ pc \in {"receive", "handling"}
              /\ scope = "in"
              /\ teardowns = setups - 1
              /\ b = [kind |-> "setup", n |-> setups]
           \/ /\ pc = "done"
              /\ extStop

\* C6: after a handler returned a new Behavior value, the next message is
\* dispatched to that new Behavior.
C6_NextGoesToNewBehavior ==
    \A i \in DOMAIN handled :
        (handled[i].result = "Behavior" /\ i < Len(handled)) =>
            handled[i + 1].handler = [kind |-> "repl", n |-> i]

\* C7: every entry of the behavior scope, the one after a Restart included,
\* runs the original setup initializer and leaves the actor running.
C7_RestartReentersOriginal ==
    [][(pc = "enter" /\ pc' # "enter") =>
          (/\ pc' = "receive"
           /\ setups' = setups + 1
           /\ scope' = "in"
           /\ b' = [kind |-> "setup", n |-> setups + 1])]_vars

\* C8: a dispatch whose result is Same or Ignored changes neither the active
\* handler nor the behavior scope nor the mailbox, and an Ignored result
\* appends the message to the report of ignored messages.
C8_SameIgnoredFrame ==
    [][(/\ inflight' # inflight
        /\ inflight' \subseteq inflight
        /\ lastResult' \in {"Same", "Ignored"}) =>
          (/\ b' = b
           /\ behavior' = behavior
           /\ scope' = scope
           /\ setups' = setups
           /\ teardowns' = teardowns
           /\ excExits' = excExits
           /\ run' = run
           /\ closed' = closed
           /\ sendTasks' = sendTasks
           /\ pc' = "receive"
           /\ ignoredLog' =
                 IF lastResult' = "Ignored"
                 THEN Append(ignoredLog,
                             CHOOSE m \in inflight \ inflight' : TRUE)
                 ELSE ignoredLog)]_vars

\* an Ignored and a Same dispatch, the third message goes to the same handler
C8_Witness ==
    /\ Len(handled) = 3
    /\ handled[1].result = "Ignored"
    /\ handled[2].result = "Same"
    /\ handled[3].handler = handled[1].handler
    /\ ignoredLog = <<handled[1].msg>>
    /\ setups = 1
    /\ teardowns = 0
    /\ ~closed

\* the Signal that corresponds to a SuperviseStrategy
SignalOf(strategy) ==
    CASE strategy = "Restart" -> "Restart"
      [] strategy = "Stop"    -> "Stop"
      [] strategy = "Ignore"  -> "Same"

\* C9: the supervised handle returns Restart, Stop or Same for the strategy
\* results Restart, Stop and Ignore when the wrapped handler raises, and the
\* wrapped handler's result when it does not raise.
C9_SupervisedSignal ==
    sup \in {"Restart", "Stop", "Ignore"} =>
        \A i \in DOMAIN handled :
            handled[i].did # "-" =>
                handled[i].result =
                    IF handled[i].did = "Raise" THEN SignalOf(sup)
                    ELSE handled[i].did

\* the handler of every dispatch so far returned Same or Ignored or raised
OnlySameOrRaise ==
    \A i \in DOMAIN handled :
        handled[i].did \in {"-", "Same", "Ignored", "Raise"}

\* C10: supervised by a strategy that always returns Ignore, with handlers
\* that return Same or raise: no error leaves the loop, every message that was
\* sent is dispatched to the one handler, nothing is torn down or restarted,
\* and the actor keeps running with its mailbox open.
C10_IgnoreKeepsRunning ==
    (sup = "Ignore" /\ ~extStop /\ OnlySameOrRaise) =>
        /\ pc \in {"enter", "receive", "handling"}
        /\ run
        /\ ~closed
        /\ setups <= 1
        /\ teardowns = 0
        /\ excExits = 0
        /\ dropped = {}
        /\ raised = {}
        /\ \A i \in DOMAIN handled :
               handled[i].handler = [kind |-> "setup", n |-> 1]
        /\ Len(handled) + Len(sendTasks) + Cardinality(spawned) = TotalSent

\* raise, Same, raise: all three dispatched, the actor waits for the next one
C10_Witness ==
    /\ sup = "Ignore"
    /\ ~extStop
    /\ Len(handled) = 3
    /\ handled[1].did = "Raise"
    /\ handled[2].did = "Same"
    /\ handled[3].did = "Raise"
    /\ pc = "receive"
    /\ scope = "in"

\* C11: once an unsupervised handler error has ended the loop, a send to the
\* actor does not leave its sender blocked forever.
C11_CrashedNeverBlocks ==
    (pc = "crashed" /\ sup = "none" /\ lastResult = "Raise")
        ~> ~Blocked("A")

C13_NowaitOrder ==
    \A i, j \in 1..Len(DispatchedFrom(NowaitSender)) :
        i < j => DispatchedFrom(NowaitSender)[i].msg.seq
                     < DispatchedFrom(NowaitSender)[j].msg.seq

\* C14: when the wrapped handler raises and the strategy callback fails too,
\* the supervised handle raises, the error leaves the loop through the
\* behavior scope and the actor task ends; the mailbox is not closed by it.
C14_StrategyFailurePropagates ==
    sup = "Fails" =>
        \A i \in DOMAIN handled :
            (handled[i].result # "-"
             /\ (handled[i].did = "Raise" \/ ~handled[i].typed)) =>
                /\ handled[i].result = "Raise"
                /\ i = Len(handled)
                /\ pc = "crashed"
                /\ scope = "out"
                /\ excExits = 1
                /\ teardowns = setups - 1
                /\ closed => extStop

\* a first message is handled, the second one raises and the strategy fails
C14_Witness ==
    /\ sup = "Fails"
    /\ Len(handled) = 2
    /\ handled[1].did = "Same"
    /\ handled[2].did = "Raise"
    /\ handled[2].result = "Raise"
    /\ pc = "crashed"


\* C15: a cancellation that reaches the actor task inside an entered behavior
\* scope exits that scope; the task never ends cancelled with a scope entered
\* and not exited.
C15_CancelExitsScope ==
    /\ [](pc = "cancelled" =>
             (scope = "out" /\ teardowns + excExits = setups))
    /\ [][(pc' = "cancelled" /\ pc # "cancelled" /\ scope = "in") =>
             (scope' = "out" /\ excExits' = excExits + 1
              /\ teardowns' = teardowns /\ setups' = setups)]_vars

\* the task was cancelled inside the handler of its second message
C15_Witness ==
    /\ pc = "cancelled"
    /\ Len(handled) = 2
    /\ handled[2].result = "Cancelled"
    /\ setups = 1
    /\ excExits = 1

C16_TypeCheck ==
    typeCheck =>
        \A i \in DOMAIN handled :
            handled[i].result # "-" =>
                IF handled[i].typed
                THEN /\ handled[i].did \in Kinds
                     /\ sup = "none" => handled[i].result = handled[i].did
                ELSE /\ handled[i].did = "-"
                     /\ sup = "none" =>
                            (/\ handled[i].result = "Raise"
                             /\ i = Len(handled)
                             /\ pc = "crashed")

\* a message of the type was handled, then one of another type was rejected
C16_Witness ==
    /\ typeCheck
    /\ sup = "none"
    /\ Len(handled) = 2
    /\ handled[1].typed
    /\ handled[1].result = "Same"
    /\ ~handled[2].typed
    /\ handled[2].did = "-"
    /\ handled[2].result = "Raise"
    /\ pc = "crashed"

\* C18 as claimed: on Stop the scope is exited before the mailbox is closed,
\* so the loop never has its mailbox closed by a Stop while the scope is still
\* entered.
C18_TeardownBeforeClose ==
    (closed /\ ~extStop) => scope = "out"

\* C18 amended: on Stop the mailbox is closed first, with the scope still
\* entered; the scope is exited afterwards, when the next receive reports
\* end-of-channel, and that exit ends the loop.
C18_CloseBeforeTeardown ==
    /\ [][(StopReturned' /\ ~StopReturned) =>
             (/\ closed'
              /\ scope = "in"
              /\ scope' = "in"
              /\ teardowns' = teardowns
              /\ pc' = "receive")]_vars
    /\ [][(pc' = "done" /\ pc # "done") =>
             (/\ closed
              /\ scope = "in"
              /\ scope' = "out"
              /\ teardowns' = teardowns + 1)]_vars

\* a Stop has closed the mailbox and the scope is still entered
C18_Witness ==
    /\ lastResult = "Stop"
    /\ ~extStop
    /\ closed
    /\ scope = "in"
    /\ pc = "receive"
    /\ teardowns = 0

\* C19: a Restart does not close the mailbox and loses no pending message:
\* no message is dispatched twice, the dispatch that follows a Restart goes
\* to the handler of the next setup, and a sender blocked across a Restart
\* still has a running actor to take its message.
C19_RestartKeepsPending ==
    /\ \A i, j \in DOMAIN handled :
           i # j => handled[i].msg # handled[j].msg
    /\ \A i \in DOMAIN handled :
           (handled[i].result = "Restart" /\ i < Len(handled)) =>
               handled[i + 1].handler =
                   [kind |-> "setup", n |-> handled[i].handler.n + 1]
    /\ (lastResult = "Restart" /\ sendTasks # <<>>) =>
           (pc \in {"enter", "receive", "handling"} /\ ~closed)

\* C20: the Stop that closes the mailbox releases every sender blocked in
\* send, without an error, and their messages are never dispatched; after a
\* Stop no send stays pending forever.
C20_StopReleasesBlocked ==
    /\ [][(StopReturned' /\ ~StopReturned) =>
             (/\ sendTasks' = <<>>
              /\ SeqToSet(sendTasks) \subseteq dropped'
              /\ raised' = {})]_vars
    /\ [](StopReturned =>
             \A i \in DOMAIN handled : handled[i].msg \notin dropped)
    /\ StopReturned ~> (sendTasks = <<>> /\ spawned = {})

\* the first message made the handler return Stop and the two other sends
\* were released with the warning before the loop saw the end of the channel
C20_Witness ==
    /\ lastResult = "Stop"
    /\ pc = "receive"
    /\ eoc = 0
    /\ Len(handled) = 1
    /\ Cardinality(dropped) = 2
    /\ raised = {}

====
